---------------------------- MODULE Spec2Model ----------------------------
(***************************************************************************)
(* A model of github.com/mt-sre/client: the default retry policy           *)
(* (policy.go), the backoff generators (backoff.go) and the retrying       *)
(* round tripper RetryWrapper (retry.go) on top of                         *)
(* github.com/cenkalti/backoff/v4 v4.2.1 (go.mod).                         *)
(*                                                                         *)
(* Strings that the code inspects character by character (error messages) *)
(* are sequences of one-character strings.  HTTP methods are only compared *)
(* for equality and stay TLA+ strings.                                     *)
(***************************************************************************)
EXTENDS Integers, Sequences, FiniteSets, TLC

VARIABLES
    cfg,        \* RetryWrapper.cfg as left by NewRetryWrapper
    calls,      \* the RoundTrip calls of this run (call ids)
    call,       \* per call: the locals of RoundTrip and its closure
    trips,      \* per call: what the inner transport saw and answered
    ctx,        \* per call: state of req.Context()
    query,      \* a question put to DefaultRetryPolicy
    answer,     \* the policy's reply to the question
    seqs,       \* the backoff sequences generated so far (backoff.BackOff objects)
    client,     \* a Client: its ClientConfig and its http.Client
    wrappers,   \* the TransportWrapper instances: the transport each delegates to
    route       \* a request on its way through the Client's transports

clientVars == <<client, wrappers, route>>

vars == <<cfg, calls, call, trips, ctx, query, answer, seqs, clientVars>>

-----------------------------------------------------------------------------
(* Bounds of the model *)

MaxFrags == 3           \* fragments concatenated into an error message
MinCode == 100          \* smallest status code asked of the policy
MaxCode == 599          \* largest status code asked of the policy
MaxRetriesBound == 2    \* largest value given to WithMaxRetries
MaxAttempts == 3        \* cap on inner transport invocations per call
MaxOpts == 2            \* options given to NewClient
MaxSeqs == 2            \* sequences obtained from generators invoked directly
MaxWraps == 2           \* cap on the Wrap calls made on one instance by its owner
MaxAsks == 4            \* delays asked of those sequences

-----------------------------------------------------------------------------
(* policy.go *)

PatConnectionRefused ==
    <<"c", "o", "n", "n", "e", "c", "t", "i", "o", "n", " ", "r", "e", "f", "u", "s", "e", "d">>
PatConnectionReset ==
    <<"c", "o", "n", "n", "e", "c", "t", "i", "o", "n", " ", "r", "e", "s", "e", "t">>
PatEOF ==
    <<"E", "O", "F">>
PatProtocolError ==
    <<"P", "R", "O", "T", "O", "C", "O", "L", "_", "E", "R", "R", "O", "R">>
PatRefusedStream ==
    <<"R", "E", "F", "U", "S", "E", "D", "_", "S", "T", "R", "E", "A", "M">>

retryPatterns ==
    <<PatConnectionRefused, PatConnectionReset, PatEOF, PatProtocolError, PatRefusedStream>>

\* strings.Contains(msg, pat): the first index at which pat occurs exists.
Contains(msg, pat) ==
    \E i \in 0..(Len(msg) - Len(pat)) :
        \A j \in 1..Len(pat) : msg[i + j] = pat[j]

\* The loop with the sense of the test inverted.
PatternLoopInverted(msg, i) ==
    \E k \in i..Len(retryPatterns) : ~Contains(msg, retryPatterns[k])

\* The loop of msgInRetryPatterns from pattern number i on.
RECURSIVE PatternLoop(_, _)
PatternLoop(msg, i) ==
    IF i > Len(retryPatterns) THEN FALSE
    ELSE IF ~Contains(msg, retryPatterns[i]) THEN PatternLoop(msg, i + 1)
    ELSE TRUE

msgInRetryPatterns(msg) == PatternLoop(msg, 1)

\* An error value: NilErr is Go's nil; any other carries a kind, the text
\* of Error() and the error it wraps (NilErr when it wraps none).
NilErr == [kind |-> "nil"]

NewErr(k, m) == [kind |-> k, msg |-> m, inner |-> NilErr]

IsErrorRetryable(err) ==
    IF err = NilErr THEN TRUE
    ELSE IF msgInRetryPatterns(err.msg) THEN TRUE
    ELSE FALSE

MethodPost == "POST"
MethodPatch == "PATCH"

isMethodIdempotent(method) ==
    IF method \in {MethodPost, MethodPatch} THEN FALSE ELSE TRUE

StatusRequestTimeout == 408
StatusTooManyRequests == 429
StatusServiceUnavailable == 503
StatusInternalServerError == 500
StatusBadGateway == 502
StatusGatewayTimeout == 504

\* IsStatusRetryableForMethod without the method test of the second case.
StatusRetryableAnyMethod(method, code) ==
    code \in {StatusRequestTimeout, StatusTooManyRequests, StatusServiceUnavailable,
              StatusInternalServerError, StatusBadGateway, StatusGatewayTimeout}

\* IsStatusRetryableForMethod with the method test applied to every case.
StatusRetryableIdempotentOnly(method, code) ==
    /\ code \in {StatusRequestTimeout, StatusTooManyRequests, StatusServiceUnavailable,
                 StatusInternalServerError, StatusBadGateway, StatusGatewayTimeout}
    /\ isMethodIdempotent(method)

\* IsStatusRetryableForMethod with a default case that retries.
StatusRetryableByDefault(method, code) ==
    IF code \in {StatusInternalServerError, StatusBadGateway, StatusGatewayTimeout}
    THEN isMethodIdempotent(method)
    ELSE code >= 400

IsStatusRetryableForMethod(method, code) ==
    CASE code \in {StatusRequestTimeout, StatusTooManyRequests, StatusServiceUnavailable}
            -> TRUE
      [] code \in {StatusInternalServerError, StatusBadGateway, StatusGatewayTimeout}
            -> isMethodIdempotent(method)
      [] OTHER -> FALSE

-----------------------------------------------------------------------------
(* Errors: wrapping (fmt.Errorf with %w), errors.Is, backoff.Permanent *)

\* fmt.Errorf(prefix + ": %w", err)
Wrap(prefix, err) == [kind |-> "wrap", msg |-> <<prefix>> \o err.msg, inner |-> err]

\* errors.Is(err, target) for a sentinel target identified by its kind.
RECURSIVE ErrorsIs(_, _)
ErrorsIs(err, target) ==
    IF err = NilErr THEN FALSE
    ELSE IF err.kind = target THEN TRUE
    ELSE ErrorsIs(err.inner, target)

errTemporary == NewErr("temporary", <<"temporary error occurred">>)

\* backoff.Permanent(err)
Permanent(err) ==
    IF err = NilErr THEN NilErr
    ELSE [kind |-> "permanent", msg |-> err.msg, inner |-> err]

\* context.Context.Err() for a context in state s
CtxErr(s) ==
    CASE s = "canceled" -> NewErr("canceled", <<"context canceled">>)
      [] s = "deadline" -> NewErr("deadline", <<"context deadline exceeded">>)
      [] OTHER -> NilErr

-----------------------------------------------------------------------------
(* backoff.go: the generators, and the sequences of backoff/v4 they return *)

\* The options of ExponentialBackoffGenerator.  Durations are in
\* milliseconds, the two factors in tenths (15 is 1.5).
WithInitialInterval(d) == [option |-> "WithInitialInterval", arg |-> d]

WithMaxElapsedTime(d) == [option |-> "WithMaxElapsedTime", arg |-> d]

WithRandomizationFactor(f) == [option |-> "WithRandomizationFactor", arg |-> f]

WithMultiplier(f) == [option |-> "WithMultiplier", arg |-> f]

\* A generator is known by the way it was built; opts are the options the
\* exponential generator applies on every invocation.
ExponentialBackoffGenerator(opts) == [kind |-> "exponential", opts |-> opts, d |-> 0]

ConstantBackoffGenerator(d) == [kind |-> "constant", opts |-> <<>>, d |-> d]

NoBackoffGenerator == [kind |-> "none", opts |-> <<>>, d |-> 0]

\* The library's defaults: backoff.DefaultInitialInterval (500 ms),
\* DefaultRandomizationFactor (0.5), DefaultMultiplier (1.5),
\* DefaultMaxInterval (60 s), DefaultMaxElapsedTime (15 min).
DefaultInitialInterval == 500
DefaultRandomizationFactor == 5
DefaultMultiplier == 15
DefaultMaxInterval == 60000
DefaultMaxElapsedTime == 900000

\* backoff.Stop
Stop == 0 - 1

\* backoff.NewExponentialBackOff(): the defaults, and Reset called on them.
\* interval is currentInterval; expired tells whether the elapsed time
\* since the last Reset has passed MaxElapsedTime.
NewExponentialBackOff ==
    [InitialInterval |-> DefaultInitialInterval,
     RandomizationFactor |-> DefaultRandomizationFactor,
     Multiplier |-> DefaultMultiplier,
     MaxInterval |-> DefaultMaxInterval,
     MaxElapsedTime |-> DefaultMaxElapsedTime,
     interval |-> DefaultInitialInterval,
     expired |-> FALSE]

\* ConfigureExponentialBackoff of the four options, setting a field only
\* while it still has the library's default.
ConfigureExponentialBackoffOnce(exp, opt) ==
    CASE opt.option = "WithInitialInterval" ->
            IF exp.InitialInterval = DefaultInitialInterval
            THEN [exp EXCEPT !.InitialInterval = opt.arg] ELSE exp
      [] opt.option = "WithMaxElapsedTime" ->
            IF exp.MaxElapsedTime = DefaultMaxElapsedTime
            THEN [exp EXCEPT !.MaxElapsedTime = opt.arg] ELSE exp
      [] opt.option = "WithRandomizationFactor" ->
            IF exp.RandomizationFactor = DefaultRandomizationFactor
            THEN [exp EXCEPT !.RandomizationFactor = opt.arg] ELSE exp
      [] OTHER ->
            IF exp.Multiplier = DefaultMultiplier
            THEN [exp EXCEPT !.Multiplier = opt.arg] ELSE exp

\* ConfigureExponentialBackoff of the four options
ConfigureExponentialBackoff(exp, opt) ==
    CASE opt.option = "WithInitialInterval" -> [exp EXCEPT !.InitialInterval = opt.arg]
      [] opt.option = "WithMaxElapsedTime" -> [exp EXCEPT !.MaxElapsedTime = opt.arg]
      [] opt.option = "WithRandomizationFactor" -> [exp EXCEPT !.RandomizationFactor = opt.arg]
      [] OTHER -> [exp EXCEPT !.Multiplier = opt.arg]

\* for _, opt := range opts { opt.ConfigureExponentialBackoff(exp) }
RECURSIVE ExponentialOptions(_, _)
ExponentialOptions(exp, opts) ==
    IF opts = <<>> THEN exp
    ELSE ExponentialOptions(ConfigureExponentialBackoff(exp, Head(opts)), Tail(opts))

\* ExponentialBackOff.Reset: back to the initial interval, the clock of the
\* elapsed time started anew.
ResetExponential(exp) ==
    [exp EXCEPT !.interval = exp.InitialInterval, !.expired = FALSE]

\* The closure of ExponentialBackoffGenerator returning exp as the options
\* leave it, without the deferred Reset.
ExponentialSequenceNoReset(opts) ==
    ExponentialOptions(NewExponentialBackOff, opts)

\* The closure of ExponentialBackoffGenerator: a new ExponentialBackOff, the
\* options applied to it, and the deferred exp.Reset().
ExponentialSequence(opts) ==
    ResetExponential(ExponentialOptions(NewExponentialBackOff, opts))

\* backoff.NewConstantBackOff(d), and &backoff.ZeroBackOff{} with d = 0, in
\* the fields of an exponential sequence: the delay never changes and no
\* elapsed time stops it.
ConstantSequence(d) ==
    [InitialInterval |-> d, RandomizationFactor |-> 0, Multiplier |-> 10,
     MaxInterval |-> d, MaxElapsedTime |-> 0, interval |-> d, expired |-> FALSE]

\* The object a generator returns: a sequence at its start.
NewSequence(g) ==
    LET bo == CASE g.kind = "exponential" -> ExponentialSequence(g.opts)
                [] g.kind = "constant" -> ConstantSequence(g.d)
                [] OTHER -> ConstantSequence(0)
    IN
    [gen |-> g, capped |-> FALSE, maxTries |-> 0, numTries |-> 0,
     InitialInterval |-> bo.InitialInterval,
     RandomizationFactor |-> bo.RandomizationFactor,
     Multiplier |-> bo.Multiplier,
     MaxInterval |-> bo.MaxInterval,
     MaxElapsedTime |-> bo.MaxElapsedTime,
     interval |-> bo.interval,
     expired |-> bo.expired]

\* The options of NewRetryWrapper
WithLogger(l) == [option |-> "WithLogger", arg |-> l]

WithBackoffGenerator(g) == [option |-> "WithBackoffGenerator", arg |-> g]

WithMaxRetries(n) == [option |-> "WithMaxRetries", arg |-> n]

\* No generator given (a nil func).
NilGenerator == [kind |-> "nil", opts |-> <<>>, d |-> 0]

\* var cfg RetryWrapperConfig
ZeroRetryWrapperConfig ==
    [Logger |-> "nil", GenerateBackoff |-> NilGenerator, Policy |-> "nil", maxRetries |-> 0]

\* ConfigureRetryWrapper of the three options
ConfigureRetryWrapper(c, opt) ==
    CASE opt.option = "WithLogger" -> [c EXCEPT !.Logger = opt.arg]
      [] opt.option = "WithBackoffGenerator" -> [c EXCEPT !.GenerateBackoff = opt.arg]
      [] OTHER -> [c EXCEPT !.maxRetries = opt.arg]

\* RetryWrapperConfig.Option
RECURSIVE RetryWrapperConfigOption(_, _)
RetryWrapperConfigOption(c, opts) ==
    IF opts = <<>> THEN c
    ELSE RetryWrapperConfigOption(ConfigureRetryWrapper(c, Head(opts)), Tail(opts))

\* RetryWrapperConfig.Default
RetryWrapperConfigDefault(c) ==
    [c EXCEPT
        !.Logger = IF @ = "nil" THEN "Discard" ELSE @,
        !.GenerateBackoff = IF @ = NilGenerator THEN ExponentialBackoffGenerator(<<>>) ELSE @,
        !.Policy = IF @ = "nil" THEN "DefaultRetryPolicy" ELSE @]

\* NewRetryWrapper wrapping the generator with a cap that ignores maxRetries.
GenerateBackoffUncapped(c) ==
    NewSequence(c.generator)

\* NewRetryWrapper putting backoff.WithMaxRetries around the generator
\* whatever maxRetries is.
GenerateBackoffAlwaysCapped(c) ==
    [NewSequence(c.generator) EXCEPT !.capped = TRUE, !.maxTries = c.maxRetries]

\* cfg.GenerateBackoff() as NewRetryWrapper leaves it: the generator's fresh
\* sequence, inside backoff.WithMaxRetries when maxRetries > 0.
GenerateBackoff(c) ==
    IF c.maxRetries > 0
    THEN [NewSequence(c.generator) EXCEPT !.capped = TRUE, !.maxTries = c.maxRetries]
    ELSE NewSequence(c.generator)

\* A wrapper that generates its sequence once and hands the same object to
\* every call.
NewBackoffShared(heap, c) ==
    IF Len(heap) > 0
    THEN [heap |-> heap, ref |-> 1]
    ELSE [heap |-> Append(heap, GenerateBackoff(c)), ref |-> 1]

\* w.cfg.GenerateBackoff() in RoundTrip: a new object among those generated
\* so far, and the reference to it.
NewBackoff(heap, c) ==
    [heap |-> Append(heap, GenerateBackoff(c)), ref |-> Len(heap) + 1]

\* Reset of a sequence (backOffTries.Reset, ExponentialBackOff.Reset)
ResetBackOff(bo) ==
    [bo EXCEPT !.numTries = 0,
               !.interval = IF bo.gen.kind = "exponential" THEN bo.InitialInterval ELSE @,
               !.expired = FALSE]

\* What a NextBackOff that stops returns: backoff.Stop, sequence bo left
\* as given.
Stopped(by, bo) ==
    [stop |-> TRUE, by |-> by, next |-> Stop, lo |-> Stop, hi |-> Stop, bo |-> bo]

\* NextBackOff where every kind of sequence honours the elapsed-time stop.
DelegateNextBackOffAllStop(bo, over) ==
    IF bo.expired \/ over
    THEN Stopped("elapsed", [bo EXCEPT !.expired = TRUE])
    ELSE [stop |-> FALSE, by |-> "none", next |-> bo.interval,
          lo |-> bo.interval, hi |-> bo.interval, bo |-> bo]

\* NextBackOff of the generator's own sequence.  over: whether the elapsed
\* time plus the delay drawn exceeds MaxElapsedTime at this moment; once it
\* does it keeps doing so until the next Reset.  The exponential sequence
\* draws its delay at random between lo and hi, the current interval less
\* and plus RandomizationFactor times itself (next is the interval in the
\* middle), and then multiplies the interval by Multiplier up to
\* MaxInterval.  A constant or zero sequence returns its delay as it is.
DelegateNextBackOff(bo, over) ==
    CASE bo.gen.kind = "exponential" ->
            LET delta == (bo.RandomizationFactor * bo.interval) \div 10
                grown == IF bo.interval * bo.Multiplier >= bo.MaxInterval * 10
                         THEN bo.MaxInterval
                         ELSE (bo.interval * bo.Multiplier) \div 10
            IN
            IF bo.MaxElapsedTime # 0 /\ (bo.expired \/ over)
            THEN Stopped("elapsed", [bo EXCEPT !.interval = grown, !.expired = TRUE])
            ELSE [stop |-> FALSE, by |-> "none", next |-> bo.interval,
                  lo |-> bo.interval - delta, hi |-> bo.interval + delta,
                  bo |-> [bo EXCEPT !.interval = grown]]
      [] OTHER -> [stop |-> FALSE, by |-> "none", next |-> bo.interval,
                   lo |-> bo.interval, hi |-> bo.interval, bo |-> bo]

\* backOffTries.NextBackOff that never counts a try.
TriesNextBackOffNoCount(bo, over) ==
    IF ~bo.capped THEN DelegateNextBackOff(bo, over)
    ELSE IF bo.maxTries = 0 THEN Stopped("tries", bo)
    ELSE IF bo.maxTries <= bo.numTries THEN Stopped("tries", bo)
    ELSE DelegateNextBackOff(bo, over)

\* backOffTries.NextBackOff (backoff.WithMaxRetries)
TriesNextBackOff(bo, over) ==
    IF ~bo.capped THEN DelegateNextBackOff(bo, over)
    ELSE IF bo.maxTries = 0 THEN Stopped("tries", bo)
    ELSE IF bo.maxTries <= bo.numTries THEN Stopped("tries", bo)
    ELSE DelegateNextBackOff([bo EXCEPT !.numTries = @ + 1], over)

\* backOffContext.NextBackOff (backoff.WithContext)
NextBackOff(bo, ctxState, over) ==
    IF ctxState # "active" THEN Stopped("ctx", bo)
    ELSE TriesNextBackOff(bo, over)

-----------------------------------------------------------------------------
(* retry.go: RetryWrapper *)

\* A body stream (request or response): what it holds, how far it has been
\* read, whether it is closed, and whether Read or Close fail on it.
Stream(data) ==
    [kind |-> "stream", data |-> data, offset |-> 0, closed |-> FALSE,
     readErr |-> FALSE, closeErr |-> FALSE]

NilBody == [Stream(<<>>) EXCEPT !.kind = "nil"]
NoBody == [Stream(<<>>) EXCEPT !.kind = "NoBody"]

\* What a reader of the stream still gets from it.
Unread(b) == SubSeq(b.data, b.offset + 1, Len(b.data))

\* copyRequestBody without the check of Close's error.
copyRequestBodyIgnoreClose(b) ==
    IF b.kind = "nil" \/ b.kind = "NoBody"
    THEN [isNil |-> TRUE, data |-> <<>>, err |-> NilErr, body |-> b]
    ELSE IF b.readErr
    THEN [isNil |-> TRUE, data |-> <<>>,
          err |-> Wrap("reading request body", NewErr("io", <<"read failed">>)),
          body |-> b]
    ELSE [isNil |-> FALSE, data |-> SubSeq(b.data, b.offset + 1, Len(b.data)), err |-> NilErr,
          body |-> [b EXCEPT !.offset = Len(b.data), !.closed = ~b.closeErr]]

\* The result of copyRequestBody: the returned slice (isNil when nil), the
\* error, and the caller's body stream as the function leaves it.
copyRequestBody(b) ==
    IF b.kind = "nil" \/ b.kind = "NoBody"
    THEN [isNil |-> TRUE, data |-> <<>>, err |-> NilErr, body |-> b]
    ELSE IF b.readErr
    THEN [isNil |-> TRUE, data |-> <<>>,
          err |-> Wrap("reading request body", NewErr("io", <<"read failed">>)),
          body |-> b]
    ELSE IF b.closeErr
    THEN [isNil |-> TRUE, data |-> <<>>,
          err |-> Wrap("closing request body", NewErr("io", <<"close failed">>)),
          body |-> [b EXCEPT !.offset = Len(b.data)]]
    ELSE [isNil |-> FALSE, data |-> Unread(b), err |-> NilErr,
          body |-> [b EXCEPT !.offset = Len(b.data), !.closed = TRUE]]

\* drainResponseBody reading the body to its end without closing it.
drainResponseBodyNoClose(t) == [t EXCEPT !.offset = Len(t.rbody)]

\* drainResponseBody on a trip that holds a Response
drainResponseBody(t) == [t EXCEPT !.offset = Len(t.rbody), !.closed = TRUE]

\* One invocation of the inner transport: the body content it read from the
\* request, and its answer once it has returned.
PendingTrip(seen) ==
    [seen |-> seen, kind |-> "pending", status |-> 0, rbody |-> <<>>,
     offset |-> 0, closed |-> FALSE, err |-> NilErr]

\* The value RoundTrip returns: res is the number of the trip whose Response
\* is returned, 0 for a nil *http.Response.
NoRet == [res |-> 0, err |-> NilErr]

\* Result selection that passes every error of backoff.Retry on.
RoundTripResultStrict(res, err) ==
    IF err # NilErr
    THEN [res |-> 0, err |-> Wrap("permanent error encountered", err)]
    ELSE [res |-> res, err |-> NilErr]

\* Result selection that drops the Response when backoff.Retry failed.
RoundTripResultNoResponse(res, err) ==
    IF err # NilErr /\ ~ErrorsIs(err, "temporary") /\ ~ErrorsIs(err, "deadline")
    THEN [res |-> 0, err |-> Wrap("permanent error encountered", err)]
    ELSE [res |-> IF err = NilErr THEN res ELSE 0, err |-> NilErr]

\* The end of RoundTrip: what it returns for the error of backoff.Retry.
RoundTripResult(res, err) ==
    IF err # NilErr /\ ~ErrorsIs(err, "temporary") /\ ~ErrorsIs(err, "deadline")
    THEN [res |-> 0, err |-> Wrap("permanent error encountered", err)]
    ELSE [res |-> res, err |-> NilErr]

\* A call before RoundTrip starts: the caller's request (method, target,
\* header, body; orig is the body as the caller passed it) and RoundTrip's
\* locals.
IdleCall(m, b) ==
    [pc |-> "idle", method |-> m, target |-> "http://host/path",
     header |-> [Accept |-> "application/json"],
     orig |-> b, body |-> b, copyNil |-> TRUE, copy |-> <<>>,
     retries |-> 0, res |-> 0, bo |-> 0, ret |-> NoRet,
     exit |-> "none", by |-> "none"]

\* RoundTrip looking at the context of the request before its first attempt.
RoundTripStartChecksContext(c) ==
    /\ call[c].pc = "idle"
    /\ LET cp == copyRequestBody(call[c].body)
           nb == NewBackoff(seqs, cfg)
       IN
         IF cp.err # NilErr
         THEN /\ call' = [call EXCEPT ![c] =
                    [@ EXCEPT !.pc = "done", !.body = cp.body, !.exit = "copy",
                              !.ret = [res |-> 0, err |-> Wrap("copying request body", cp.err)]]]
              /\ seqs' = seqs
         ELSE IF ctx[c] # "active"
         THEN /\ call' = [call EXCEPT ![c] =
                    [@ EXCEPT !.pc = "done", !.body = cp.body, !.exit = "stop",
                              !.by = "ctx",
                              !.ret = RoundTripResult(0, CtxErr(ctx[c]))]]
              /\ seqs' = seqs
         ELSE /\ call' = [call EXCEPT ![c] =
                    [@ EXCEPT !.pc = "attempt", !.body = cp.body,
                              !.copyNil = cp.isNil, !.copy = cp.data,
                              !.retries = 0, !.res = 0, !.bo = nb.ref]]
              /\ seqs' = [nb.heap EXCEPT ![nb.ref] = ResetBackOff(@)]
    /\ UNCHANGED <<cfg, calls, trips, ctx, query, answer, clientVars>>

\* RoundTrip up to the first iteration of backoff.Retry: copy the request
\* body, set up the locals, generate the backoff sequence and Reset it.
RoundTripStart(c) ==
    /\ call[c].pc = "idle"
    /\ LET cp == copyRequestBody(call[c].body)
           nb == NewBackoff(seqs, cfg)
       IN
         IF cp.err # NilErr
         THEN /\ call' = [call EXCEPT ![c] =
                    [@ EXCEPT !.pc = "done", !.body = cp.body, !.exit = "copy",
                              !.ret = [res |-> 0, err |-> Wrap("copying request body", cp.err)]]]
              /\ seqs' = seqs
         ELSE /\ call' = [call EXCEPT ![c] =
                    [@ EXCEPT !.pc = "attempt", !.body = cp.body,
                              !.copyNil = cp.isNil, !.copy = cp.data,
                              !.retries = 0, !.res = 0, !.bo = nb.ref]]
              /\ seqs' = [nb.heap EXCEPT ![nb.ref] = ResetBackOff(@)]
    /\ UNCHANGED <<cfg, calls, trips, ctx, query, answer, clientVars>>

\* The roundtrip closure sending the request with the body as the previous
\* attempt left it.
AttemptStaleBody(c) ==
    /\ call[c].pc = "attempt"
    /\ Len(trips[c]) < MaxAttempts
    /\ LET body == call[c].body
           r == call[c].res
           drained == IF r # 0
                      THEN [trips[c] EXCEPT ![r] = drainResponseBody(@)]
                      ELSE trips[c]
       IN
         /\ call' = [call EXCEPT ![c] =
                [@ EXCEPT !.pc = "inflight",
                          !.body = IF body.kind = "stream"
                                   THEN [body EXCEPT !.offset = Len(body.data)]
                                   ELSE body]]
         /\ trips' = [trips EXCEPT ![c] =
                Append(drained,
                       PendingTrip(SubSeq(body.data, body.offset + 1, Len(body.data))))]
    /\ UNCHANGED <<cfg, calls, ctx, query, answer, seqs, clientVars>>

\* The roundtrip closure run again while the inner transport has not yet
\* returned from the previous invocation.
AttemptWithoutReturn(c) ==
    /\ call[c].pc \in {"attempt", "inflight"}
    /\ Len(trips[c]) < MaxAttempts
    /\ LET body == IF ~call[c].copyNil THEN Stream(call[c].copy) ELSE call[c].body
           r == call[c].res
           drained == IF r # 0
                      THEN [trips[c] EXCEPT ![r] = drainResponseBody(@)]
                      ELSE trips[c]
       IN
         /\ call' = [call EXCEPT ![c] =
                [@ EXCEPT !.pc = "inflight",
                          !.body = IF body.kind = "stream"
                                   THEN [body EXCEPT !.offset = Len(body.data)]
                                   ELSE body]]
         /\ trips' = [trips EXCEPT ![c] = Append(drained, PendingTrip(Unread(body)))]
    /\ UNCHANGED <<cfg, calls, ctx, query, answer, seqs, clientVars>>

\* The roundtrip closure replacing the request body on every attempt,
\* whether or not there is a copy.
AttemptAlwaysSetsBody(c) ==
    /\ call[c].pc = "attempt"
    /\ Len(trips[c]) < MaxAttempts
    /\ LET body == Stream(call[c].copy)
           r == call[c].res
           drained == IF r # 0
                      THEN [trips[c] EXCEPT ![r] = drainResponseBody(@)]
                      ELSE trips[c]
       IN
         /\ call' = [call EXCEPT ![c] =
                [@ EXCEPT !.pc = "inflight",
                          !.body = [body EXCEPT !.offset = Len(body.data)]]]
         /\ trips' = [trips EXCEPT ![c] = Append(drained, PendingTrip(Unread(body)))]
    /\ UNCHANGED <<cfg, calls, ctx, query, answer, seqs, clientVars>>

\* The roundtrip closure up to the call of the inner transport: give the
\* request a fresh body, drain the previous Response, invoke w.rt.RoundTrip
\* (which reads the request body).
Attempt(c) ==
    /\ call[c].pc = "attempt"
    /\ Len(trips[c]) < MaxAttempts
    /\ LET body == IF ~call[c].copyNil THEN Stream(call[c].copy) ELSE call[c].body
           r == call[c].res
           drained == IF r # 0
                      THEN [trips[c] EXCEPT ![r] = drainResponseBody(@)]
                      ELSE trips[c]
       IN
         /\ call' = [call EXCEPT ![c] =
                [@ EXCEPT !.pc = "inflight",
                          !.body = IF body.kind = "stream"
                                   THEN [body EXCEPT !.offset = Len(body.data)]
                                   ELSE body]]
         /\ trips' = [trips EXCEPT ![c] = Append(drained, PendingTrip(Unread(body)))]
    /\ UNCHANGED <<cfg, calls, ctx, query, answer, seqs, clientVars>>

\* The closure asking for a retry after every Response.
ClosureResultRetryAll(c, t) ==
    IF t.kind = "err"
    THEN [res |-> 0, retries |-> call[c].retries,
          err |-> IF ~IsErrorRetryable(t.err) THEN Permanent(t.err) ELSE errTemporary]
    ELSE [res |-> Len(trips[c]), retries |-> call[c].retries + 1, err |-> errTemporary]

\* The closure leaving res as it was when the inner transport fails.
ClosureResultKeepsResponse(c, t) ==
    IF t.kind = "err"
    THEN [res |-> call[c].res, retries |-> call[c].retries,
          err |-> IF ~IsErrorRetryable(t.err) THEN Permanent(t.err) ELSE errTemporary]
    ELSE IF ~IsStatusRetryableForMethod(call[c].method, t.status)
    THEN [res |-> Len(trips[c]), retries |-> call[c].retries, err |-> NilErr]
    ELSE [res |-> Len(trips[c]), retries |-> call[c].retries + 1, err |-> errTemporary]

\* The closure giving up on every transport failure.
ClosureResultFailuresFatal(c, t) ==
    IF t.kind = "err"
    THEN [res |-> 0, retries |-> call[c].retries, err |-> Permanent(t.err)]
    ELSE IF ~IsStatusRetryableForMethod(call[c].method, t.status)
    THEN [res |-> Len(trips[c]), retries |-> call[c].retries, err |-> NilErr]
    ELSE [res |-> Len(trips[c]), retries |-> call[c].retries + 1, err |-> errTemporary]

\* What the roundtrip closure does with the answer of the inner transport:
\* the new value of res, of retries, and the error the closure returns.
ClosureResult(c, t) ==
    IF t.kind = "err"
    THEN [res |-> 0, retries |-> call[c].retries,
          err |-> IF ~IsErrorRetryable(t.err) THEN Permanent(t.err) ELSE errTemporary]
    ELSE IF ~IsStatusRetryableForMethod(call[c].method, t.status)
    THEN [res |-> Len(trips[c]), retries |-> call[c].retries, err |-> NilErr]
    ELSE [res |-> Len(trips[c]), retries |-> call[c].retries + 1, err |-> errTemporary]

\* The loop of backoff.Retry after the operation returned opErr: return, or
\* ask the sequence for the next delay and stop or start the timer.
\* done: whether Retry returns; err: what it returns; exit, by: which way.
RetryStep(opErr, bo, ctxState, over) ==
    IF opErr = NilErr
    THEN [done |-> TRUE, err |-> NilErr, bo |-> bo, exit |-> "success", by |-> "none"]
    ELSE IF ErrorsIs(opErr, "permanent")
    THEN [done |-> TRUE, err |-> opErr.inner, bo |-> bo, exit |-> "permanent", by |-> "none"]
    ELSE LET n == NextBackOff(bo, ctxState, over) IN
         IF n.stop
         THEN IF CtxErr(ctxState) # NilErr
              THEN [done |-> TRUE, err |-> CtxErr(ctxState), bo |-> n.bo,
                    exit |-> "stop", by |-> n.by]
              ELSE [done |-> TRUE, err |-> opErr, bo |-> n.bo,
                    exit |-> "stop", by |-> n.by]
         ELSE [done |-> FALSE, err |-> NilErr, bo |-> n.bo, exit |-> "none", by |-> "none"]

\* The inner transport returns answer t (a Response or a failure); the
\* closure classifies it and backoff.Retry returns or starts to wait.
TransportReturn(c, t, over) ==
    /\ call[c].pc = "inflight"
    /\ LET n == Len(trips[c])
           trip == [trips[c][n] EXCEPT !.kind = t.kind, !.status = t.status,
                                       !.rbody = t.rbody, !.err = t.err]
           cl == ClosureResult(c, trip)
           st == RetryStep(cl.err, seqs[call[c].bo], ctx[c], over)
       IN
         /\ trips' = [trips EXCEPT ![c] = [@ EXCEPT ![n] = trip]]
         /\ call' = [call EXCEPT ![c] =
                [@ EXCEPT !.res = cl.res, !.retries = cl.retries,
                          !.pc = IF st.done THEN "done" ELSE "wait",
                          !.exit = st.exit, !.by = st.by,
                          !.ret = IF st.done THEN RoundTripResult(cl.res, st.err) ELSE @]]
         /\ seqs' = [seqs EXCEPT ![call[c].bo] = st.bo]
    /\ UNCHANGED <<cfg, calls, ctx, query, answer, clientVars>>

\* The timer of backoff.Retry fires: the loop runs the operation again.
WaitDone(c) ==
    /\ call[c].pc = "wait"
    /\ call' = [call EXCEPT ![c] = [@ EXCEPT !.pc = "attempt"]]
    /\ UNCHANGED <<cfg, calls, trips, ctx, query, answer, seqs, clientVars>>

\* The select of backoff.Retry takes ctx.Done(): Retry returns ctx.Err().
WaitCancelled(c) ==
    /\ call[c].pc = "wait"
    /\ ctx[c] # "active"
    /\ call' = [call EXCEPT ![c] =
           [@ EXCEPT !.pc = "done", !.exit = "ctxwait", !.by = "ctx",
                     !.ret = RoundTripResult(call[c].res, CtxErr(ctx[c]))]]
    /\ UNCHANGED <<cfg, calls, trips, ctx, query, answer, seqs, clientVars>>

\* The caller cancels the request context (how = "canceled") or its
\* deadline passes (how = "deadline").
Cancel(c, how) ==
    /\ ctx[c] = "active"
    /\ call[c].pc # "done"
    /\ ctx' = [ctx EXCEPT ![c] = how]
    /\ UNCHANGED <<cfg, calls, call, trips, query, answer, seqs, clientVars>>

-----------------------------------------------------------------------------
(* client.go: Client, ClientConfig and the TransportWrapper instances.      *)
(* Transports and wrapper instances are known by name.                     *)

DefaultTransport == "DefaultTransport"      \* http.DefaultTransport

\* The TransportWrapper instances of the run (RetryWrapper, OAUTHWrapper).
WrapperNames == {"w1", "w2", "w3"}

\* No Client built, no wrapper instance, no request on its way.
NoClient == [built |-> FALSE, Wrappers |-> <<>>, Transport |-> "nil", transport |-> "nil"]

NoWrappers == <<>>

\* arg is the body the caller gave to the Client method, body the one the
\* request carries.
NoRoute == [at |-> "idle", method |-> "", arg |-> "nil", body |-> "nil", path |-> <<>>]

\* The options of NewClient.
WithTransport(rt) == [option |-> "WithTransport", arg |-> rt]

WithWrapper(w) == [option |-> "WithWrapper", arg |-> w]

\* ConfigureClient of the two options
ConfigureClient(c, opt) ==
    IF opt.option = "WithTransport"
    THEN [c EXCEPT !.Transport = opt.arg]
    ELSE [c EXCEPT !.Wrappers = Append(@, opt.arg)]

\* ClientConfig.Option
RECURSIVE ClientConfigOption(_, _)
ClientConfigOption(c, opts) ==
    IF opts = <<>> THEN c
    ELSE ClientConfigOption(ConfigureClient(c, Head(opts)), Tail(opts))

\* ClientConfig.Default
ClientConfigDefault(c) ==
    IF c.Transport = "nil" THEN [c EXCEPT !.Transport = DefaultTransport] ELSE c

\* A wrapper instance nobody has called Wrap on.  rt is the field of the
\* instance (RetryWrapper.rt, OAUTHWrapper.transport.Base); wraps lists the
\* transports its Wrap calls were given and ret is what the last of them
\* returned.
NewWrapper == [rt |-> "nil", wraps |-> <<>>, ret |-> "nil"]

\* A Wrap that keeps the transport of the first call.
TransportWrapperWrapOnce(ws, w, rt) ==
    [ws |-> [ws EXCEPT ![w].rt = IF @ = "nil" THEN rt ELSE @,
                       ![w].wraps = Append(@, rt),
                       ![w].ret = w],
     ret |-> w]

\* RetryWrapper.Wrap, OAUTHWrapper.Wrap: the instance w keeps rt as the
\* transport it delegates to and returns itself.
TransportWrapperWrap(ws, w, rt) ==
    [ws |-> [ws EXCEPT ![w].rt = rt, ![w].wraps = Append(@, rt), ![w].ret = w],
     ret |-> w]

\* The loop of ClientConfig.Wrap: every wrapper is given tp; what Wrap
\* returns is dropped and tp stays what it was.
RECURSIVE ClientConfigWrapLoop(_, _, _)
ClientConfigWrapLoop(ws, list, tp) ==
    IF list = <<>> THEN ws
    ELSE ClientConfigWrapLoop(TransportWrapperWrap(ws, Head(list), tp).ws, Tail(list), tp)

\* ClientConfig.Wrap: the wrapper instances after the loop and the value
\* assigned to client.Transport.
ClientConfigWrap(c, ws) ==
    [ws |-> ClientConfigWrapLoop(ws, c.Wrappers, c.Transport), transport |-> c.Transport]

\* NewClient(opts...)
NewClient(opts) ==
    /\ ~client.built
    /\ LET c == ClientConfigDefault(
                    ClientConfigOption([Transport |-> "nil", Wrappers |-> <<>>], opts))
           w == ClientConfigWrap(c, wrappers)
       IN
       /\ client' = [built |-> TRUE, Wrappers |-> c.Wrappers,
                     Transport |-> c.Transport, transport |-> w.transport]
       /\ wrappers' = w.ws
    /\ UNCHANGED <<cfg, calls, call, trips, ctx, query, answer, seqs, route>>

\* w.Wrap(rt) called by the program that owns the wrapper instance, as in
\* client.Transport = retry.Wrap(&mrt).
WrapTransport(w, rt) ==
    /\ Len(wrappers[w].wraps) < MaxWraps
    /\ wrappers' = TransportWrapperWrap(wrappers, w, rt).ws
    /\ UNCHANGED <<cfg, calls, call, trips, ctx, query, answer, seqs, client, route>>

\* Client.requestWithBody: the request handed to c.client.Do, which gives
\* it to the http.Client's Transport.  (A URL that does not parse makes
\* NewRequestWithContext fail; URLs are not modelled.)
requestWithBody(method, body) ==
    [at |-> client.transport, method |-> method, arg |-> "nil", body |-> body, path |-> <<>>]

\* Client.requestWithoutBody
requestWithoutBody(method) == requestWithBody(method, "nil")

\* The Client methods that take a body: Post, Put, Patch, Connect.
BodyMethods == {"POST", "PUT", "PATCH", "CONNECT"}

\* Client.Get, Head, Post, Put, Patch, Delete, Connect, Options, Trace,
\* called with the body the caller passes.  Post, Put, Patch and Connect
\* call requestWithBody with nil in the place of their body argument.
ClientRequest(method, body) ==
    /\ client.built
    /\ route.at \in {"idle", "done"}
    /\ route' = [(IF method \in BodyMethods
                  THEN requestWithBody(method, "nil")
                  ELSE requestWithoutBody(method)) EXCEPT !.arg = body]
    /\ UNCHANGED <<cfg, calls, call, trips, ctx, query, answer, seqs, client, wrappers>>

\* RoundTrip of a wrapper instance: it passes the request to the transport
\* it was last wrapped around; with none it dereferences a nil interface.
WrapperRoundTrip ==
    /\ route.at \in DOMAIN wrappers
    /\ route' = [route EXCEPT
                    !.path = Append(@, route.at),
                    !.at = IF wrappers[route.at].rt = "nil" THEN "panic"
                           ELSE wrappers[route.at].rt]
    /\ UNCHANGED <<cfg, calls, call, trips, ctx, query, answer, seqs, client, wrappers>>

\* RoundTrip of a transport that is not a wrapper: the request leaves.
BaseRoundTrip ==
    /\ route.at \notin DOMAIN wrappers
    /\ route.at \notin {"idle", "done", "panic"}
    /\ route' = [route EXCEPT !.path = Append(@, route.at), !.at = "done"]
    /\ UNCHANGED <<cfg, calls, call, trips, ctx, query, answer, seqs, client, wrappers>>

-----------------------------------------------------------------------------
(* A backoff generator invoked directly *)

\* A generator that keeps one sequence object and returns it, reset, on
\* every invocation.
InvokeGeneratorShared(heap, g) ==
    IF \E i \in 1..Len(heap) : heap[i].gen = g
    THEN LET i == CHOOSE j \in 1..Len(heap) : heap[j].gen = g IN
         [heap |-> [heap EXCEPT ![i] = ResetBackOff(@)], ref |-> i]
    ELSE [heap |-> Append(heap, NewSequence(g)), ref |-> Len(heap) + 1]

\* g(): the object the BackoffGenerator g returns, among those returned so
\* far, and the reference to it.
InvokeGenerator(heap, g) ==
    [heap |-> Append(heap, NewSequence(g)), ref |-> Len(heap) + 1]

\* The program invokes generator g once more.
Generate(g) ==
    /\ Len(seqs) < MaxSeqs
    /\ seqs' = InvokeGenerator(seqs, g).heap
    /\ UNCHANGED <<cfg, calls, call, trips, ctx, query, answer, clientVars>>

\* How many times the program has asked a sequence for a delay.
Asked == IF query.kind = "NextBackOff" THEN query.n ELSE 0

\* The program asks sequence i for its next delay: NextBackOff on the
\* object the generator returned.  query tells which sequence was asked
\* last, answer what it returned.
Advance(i, over) ==
    /\ i \in 1..Len(seqs)
    /\ Asked < MaxAsks
    /\ LET r == DelegateNextBackOff(seqs[i], over) IN
        /\ seqs' = [seqs EXCEPT ![i] = r.bo]
        /\ query' = [kind |-> "NextBackOff", seq |-> i, n |-> Asked + 1]
        /\ answer' = [given |-> TRUE,
                      value |-> [stop |-> r.stop, next |-> r.next, lo |-> r.lo, hi |-> r.hi]]
    /\ UNCHANGED <<cfg, calls, call, trips, ctx, clientVars>>

-----------------------------------------------------------------------------
(* The policy asked directly *)

NoQuery == [kind |-> "none", method |-> "", code |-> 0, err |-> NilErr]

NoAnswer == [given |-> FALSE, value |-> FALSE]

AskStatus ==
    /\ query.kind = "status"
    /\ ~answer.given
    /\ answer' = [given |-> TRUE, value |-> IsStatusRetryableForMethod(query.method, query.code)]
    /\ UNCHANGED <<cfg, calls, call, trips, ctx, query, seqs, clientVars>>

AskError ==
    /\ query.kind = "error"
    /\ ~answer.given
    /\ answer' = [given |-> TRUE, value |-> IsErrorRetryable(query.err)]
    /\ UNCHANGED <<cfg, calls, call, trips, ctx, query, seqs, clientVars>>

-----------------------------------------------------------------------------
(* Options applied to a configuration *)

\* cfg.Option(opts...) and cfg.Default() on a zero RetryWrapperConfig, as in
\* NewRetryWrapper
OptionRetryWrapper ==
    /\ query.kind = "RetryWrapperOption"
    /\ ~answer.given
    /\ answer' = [given |-> TRUE,
                  value |-> RetryWrapperConfigDefault(
                                RetryWrapperConfigOption(ZeroRetryWrapperConfig, query.opts))]
    /\ UNCHANGED <<cfg, calls, call, trips, ctx, query, seqs, clientVars>>

\* cfg.Option(opts...) and cfg.Default() on a zero ClientConfig, as in
\* NewClient
OptionClient ==
    /\ query.kind = "ClientOption"
    /\ ~answer.given
    /\ answer' = [given |-> TRUE,
                  value |-> ClientConfigDefault(
                                ClientConfigOption([Transport |-> "nil", Wrappers |-> <<>>],
                                                   query.opts))]
    /\ UNCHANGED <<cfg, calls, call, trips, ctx, query, seqs, clientVars>>

\* One invocation of ExponentialBackoffGenerator(opts...)
OptionExponentialBackoff ==
    /\ query.kind = "ExponentialBackoffOption"
    /\ ~answer.given
    /\ answer' = [given |-> TRUE, value |-> ExponentialSequence(query.opts)]
    /\ UNCHANGED <<cfg, calls, call, trips, ctx, query, seqs, clientVars>>

-----------------------------------------------------------------------------
(* Inputs *)

FragConnection ==
    <<"c", "o", "n", "n", "e", "c", "t", "i", "o", "n", " ">>
FragRefused ==
    <<"r", "e", "f", "u", "s", "e", "d">>
FragReset ==
    <<"r", "e", "s", "e", "t">>
FragEO ==
    <<"E", "O">>
FragF ==
    <<"F">>
FragUnknown ==
    <<"u", "n", "k", "n", "o", "w", "n", " ", "e", "r", "r", "o", "r">>
FragLowerEof ==
    <<"e", "o", "f">>
FragProtocol ==
    <<"P", "R", "O", "T", "O", "C", "O", "L", "_">>
FragError ==
    <<"E", "R", "R", "O", "R">>
FragRefusedUpper ==
    <<"R", "E", "F", "U", "S", "E", "D">>
FragStream ==
    <<"_", "S", "T", "R", "E", "A", "M">>

Fragments ==
    {FragConnection, FragRefused, FragReset, FragEO, FragF, FragUnknown, FragLowerEof,
     FragProtocol, FragError, FragRefusedUpper, FragStream, PatEOF}

\* The messages made of at most n fragments.
RECURSIVE Messages(_)
Messages(n) ==
    IF n = 0 THEN {<<>>}
    ELSE LET shorter == Messages(n - 1) IN
         shorter \cup {m \o f : m \in shorter, f \in Fragments}

\* Methods asked of the policy: the nine of net/http, one of WebDAV, a
\* lower-case spelling and the empty string.
PolicyMethods ==
    {"GET", "HEAD", "PUT", "DELETE", "OPTIONS", "TRACE", "CONNECT", "POST", "PATCH",
     "LOCK", "post", ""}

Queries ==
    [kind : {"status"}, method : PolicyMethods, code : MinCode..MaxCode, err : {NilErr}]
    \cup [kind : {"error"}, method : {""}, code : {0},
          err : {NilErr} \cup {NewErr("net", m) : m \in Messages(MaxFrags)}]

\* Requests and configurations of the calls.
Methods == {"GET", "POST", "PATCH"}

ReqBodies ==
    {NilBody, NoBody, Stream(<<1, 2>>),
     [Stream(<<1>>) EXCEPT !.readErr = TRUE], [Stream(<<1>>) EXCEPT !.closeErr = TRUE]}

Generators ==
    {ExponentialBackoffGenerator(<<>>), ConstantBackoffGenerator(1), NoBackoffGenerator}

Configs == [generator : Generators, maxRetries : 0..MaxRetriesBound]

\* Answers of the inner transport.
Response(code, b) ==
    [kind |-> "resp", status |-> code, rbody |-> b, err |-> NilErr]

Failure(e) == [kind |-> "err", status |-> 0, rbody |-> <<>>, err |-> e]

\* A transport fails with a dial error, an unrecognised error, or, once the
\* request context is done, with the context's error.
TransportAnswers(ctxState) ==
    {Response(200, <<7, 8>>), Response(200, <<>>), Response(429, <<>>),
     Response(500, <<7, 8>>), Response(502, <<>>), Response(504, <<7, 8>>)}
    \cup {Failure(NewErr("net", FragConnection \o FragRefused)),
          Failure(NewErr("net", FragUnknown))}
    \cup (IF ctxState # "active" THEN {Failure(CtxErr(ctxState))} ELSE {})

-----------------------------------------------------------------------------
(* Specifications *)

\* One RoundTrip call on a RetryWrapper built by NewRetryWrapper.
Init ==
    /\ cfg \in Configs
    /\ calls = {1}
    /\ call \in [calls -> {IdleCall(m, b) : m \in Methods, b \in ReqBodies}]
    /\ trips = [c \in calls |-> <<>>]
    /\ ctx = [c \in calls |-> "active"]
    /\ query = NoQuery
    /\ answer = NoAnswer
    /\ seqs = <<>>
    /\ client = NoClient
    /\ wrappers = NoWrappers
    /\ route = NoRoute

Next ==
    \/ \E c \in calls : RoundTripStart(c)
    \/ \E c \in calls : Attempt(c)
    \/ \E c \in calls : \E t \in TransportAnswers(ctx[c]) : \E over \in BOOLEAN :
            TransportReturn(c, t, over)
    \/ \E c \in calls : WaitDone(c)
    \/ \E c \in calls : WaitCancelled(c)
    \/ \E c \in calls : \E how \in {"canceled", "deadline"} : Cancel(c, how)

Spec == Init /\ [][Next]_vars

\* The policy asked one question.
InitPolicy ==
    /\ cfg \in {[generator |-> NoBackoffGenerator, maxRetries |-> 0]}
    /\ calls = {}
    /\ call = [c \in calls |-> IdleCall("GET", NilBody)]
    /\ trips = [c \in calls |-> <<>>]
    /\ ctx = [c \in calls |-> "active"]
    /\ query \in Queries
    /\ answer = NoAnswer
    /\ seqs = <<>>
    /\ client = NoClient
    /\ wrappers = NoWrappers
    /\ route = NoRoute

NextPolicy ==
    \/ AskStatus
    \/ AskError

SpecPolicy == InitPolicy /\ [][NextPolicy]_vars

\* A Client built by NewClient and the requests made with it.  w1 and w2
\* are the instances given to WithWrapper; w3 is an instance the program
\* wraps around a transport itself and may give to WithTransport.
BaseTransports == {DefaultTransport, "t1"}

ClientOptions ==
    {WithTransport(rt) : rt \in {"t1", "w3"}} \cup {WithWrapper(w) : w \in {"w1", "w2"}}

RECURSIVE OptionLists(_)
OptionLists(n) ==
    IF n = 0 THEN {<<>>}
    ELSE OptionLists(n - 1)
            \cup {Append(l, o) : l \in {k \in OptionLists(n - 1) : Len(k) = n - 1},
                                 o \in ClientOptions}

\* The lists of at most n options out of the set S.
RECURSIVE ListsOf(_, _)
ListsOf(S, n) ==
    IF n = 0 THEN {<<>>}
    ELSE ListsOf(S, n - 1)
            \cup {Append(l, o) : l \in {k \in ListsOf(S, n - 1) : Len(k) = n - 1}, o \in S}

RetryWrapperOptions ==
    {WithLogger(l) : l \in {"l1", "l2"}}
    \cup {WithBackoffGenerator(g) : g \in {ConstantBackoffGenerator(1), NoBackoffGenerator}}
    \cup {WithMaxRetries(n) : n \in 1..MaxRetriesBound}

ExponentialBackoffOptions ==
    {WithInitialInterval(100), WithInitialInterval(200), WithMaxElapsedTime(0),
     WithMaxElapsedTime(1000), WithRandomizationFactor(0), WithMultiplier(20)}

OptionQueries ==
    [kind : {"RetryWrapperOption"}, opts : ListsOf(RetryWrapperOptions, MaxOpts)]
    \cup [kind : {"ClientOption"}, opts : ListsOf(ClientOptions, MaxOpts)]
    \cup [kind : {"ExponentialBackoffOption"},
          opts : ListsOf(ExponentialBackoffOptions, MaxOpts)]

ClientMethods ==
    {"GET", "HEAD", "POST", "PUT", "PATCH", "DELETE", "CONNECT", "OPTIONS", "TRACE"}

InitClient ==
    /\ cfg \in {[generator |-> NoBackoffGenerator, maxRetries |-> 0]}
    /\ calls = {}
    /\ call = [c \in calls |-> IdleCall("GET", NilBody)]
    /\ trips = [c \in calls |-> <<>>]
    /\ ctx = [c \in calls |-> "active"]
    /\ query = NoQuery
    /\ answer = NoAnswer
    /\ seqs = <<>>
    /\ client = NoClient
    /\ wrappers = [w \in WrapperNames |-> NewWrapper]
    /\ route = NoRoute

NextClient ==
    \/ \E opts \in OptionLists(MaxOpts) : NewClient(opts)
    \/ \E rt \in BaseTransports : WrapTransport("w3", rt)
    \/ \E m \in ClientMethods :
            \E b \in (IF m \in BodyMethods THEN {"nil", "body"} ELSE {"nil"}) :
                ClientRequest(m, b)
    \/ WrapperRoundTrip
    \/ BaseRoundTrip

SpecClient == InitClient /\ [][NextClient]_vars

\* Two concurrent RoundTrip calls on one RetryWrapper, GET without a body,
\* the contexts never done.
ConcAnswers ==
    {Response(429, <<1>>), Response(200, <<>>), Failure(NewErr("net", FragConnection \o FragRefused))}

InitConc ==
    /\ cfg \in Configs
    /\ calls = {1, 2}
    /\ call = [c \in calls |-> IdleCall("GET", NilBody)]
    /\ trips = [c \in calls |-> <<>>]
    /\ ctx = [c \in calls |-> "active"]
    /\ query = NoQuery
    /\ answer = NoAnswer
    /\ seqs = <<>>
    /\ client = NoClient
    /\ wrappers = NoWrappers
    /\ route = NoRoute

NextConc ==
    \/ \E c \in calls : RoundTripStart(c)
    \/ \E c \in calls : Attempt(c)
    \/ \E c \in calls : \E t \in ConcAnswers : \E over \in BOOLEAN :
            TransportReturn(c, t, over)
    \/ \E c \in calls : WaitDone(c)

SpecConc == InitConc /\ [][NextConc]_vars

\* Generators invoked directly and their sequences advanced.
DirectGenerators ==
    Generators
    \cup {ExponentialBackoffGenerator(<<WithInitialInterval(100)>>),
          ExponentialBackoffGenerator(<<WithInitialInterval(200), WithRandomizationFactor(0),
                                        WithMaxElapsedTime(0)>>)}

InitGen ==
    /\ cfg \in {[generator |-> NoBackoffGenerator, maxRetries |-> 0]}
    /\ calls = {}
    /\ call = [c \in calls |-> IdleCall("GET", NilBody)]
    /\ trips = [c \in calls |-> <<>>]
    /\ ctx = [c \in calls |-> "active"]
    /\ query = NoQuery
    /\ answer = NoAnswer
    /\ seqs = <<>>
    /\ client = NoClient
    /\ wrappers = NoWrappers
    /\ route = NoRoute

NextGen ==
    \/ \E g \in DirectGenerators : Generate(g)
    \/ \E i \in 1..MaxSeqs : \E over \in BOOLEAN : Advance(i, over)

SpecGen == InitGen /\ [][NextGen]_vars

\* A list of options applied to a zero configuration.
InitOptions ==
    /\ cfg \in {[generator |-> NoBackoffGenerator, maxRetries |-> 0]}
    /\ calls = {}
    /\ call = [c \in calls |-> IdleCall("GET", NilBody)]
    /\ trips = [c \in calls |-> <<>>]
    /\ ctx = [c \in calls |-> "active"]
    /\ query \in OptionQueries
    /\ answer = NoAnswer
    /\ seqs = <<>>
    /\ client = NoClient
    /\ wrappers = NoWrappers
    /\ route = NoRoute

NextOptions ==
    \/ OptionRetryWrapper
    \/ OptionClient
    \/ OptionExponentialBackoff

SpecOptions == InitOptions /\ [][NextOptions]_vars

\* One RoundTrip call on a request whose context is done before the call:
\* cancelled, or past its deadline.
InitCancelled ==
    /\ cfg \in Configs
    /\ calls = {1}
    /\ call \in [calls -> {IdleCall(m, b) : m \in Methods, b \in ReqBodies}]
    /\ trips = [c \in calls |-> <<>>]
    /\ ctx \in [calls -> {"canceled", "deadline"}]
    /\ query = NoQuery
    /\ answer = NoAnswer
    /\ seqs = <<>>
    /\ client = NoClient
    /\ wrappers = NoWrappers
    /\ route = NoRoute

NextCancelled ==
    \/ \E c \in calls : RoundTripStart(c)
    \/ \E c \in calls : Attempt(c)
    \/ \E c \in calls : \E t \in TransportAnswers(ctx[c]) : \E over \in BOOLEAN :
            TransportReturn(c, t, over)

SpecCancelled == InitCancelled /\ [][NextCancelled]_vars

\* One RoundTrip call whose steps are always taken in the end: the inner
\* transport returns from every invocation, the timer of every wait fires
\* and the goroutine of the call keeps running.
SpecFair == Init /\ [][Next]_vars /\ WF_vars(Next)

-----------------------------------------------------------------------------
(* Properties of RoundTrip (specification Spec) *)

Min(a, b) == IF a < b THEN a ELSE b

Done(c) == call[c].pc = "done"

\* The most recent answer of the inner transport in call c.
LastTrip(c) == trips[c][Len(trips[c])]

\* The backoff sequence itself said Stop (retry count or elapsed time used
\* up) while the request context was still live.
Exhausted(c) ==
    /\ Done(c)
    /\ call[c].exit = "stop"
    /\ call[c].by \in {"tries", "elapsed"}

\* RoundTrip returned the Response of trip n, with no error, its body
\* neither read nor closed.
ReturnsUntouched(c, n) ==
    /\ call[c].ret = [res |-> n, err |-> NilErr]
    /\ trips[c][n].kind = "resp"
    /\ trips[c][n].offset = 0
    /\ ~trips[c][n].closed

\* C1: when the backoff sequence signals stop and the most recent attempt
\* produced a Response (of retryable status), RoundTrip returns exactly that
\* Response, without error, its body neither drained nor closed.
C1_StopReturnsLastResponse ==
    \A c \in calls :
        (Exhausted(c) /\ LastTrip(c).kind = "resp")
            => ReturnsUntouched(c, Len(trips[c]))

C1_Witness ==
    \E c \in calls :
        /\ Exhausted(c)
        /\ Len(trips[c]) >= 2
        /\ LastTrip(c).kind = "resp"
        /\ LastTrip(c).rbody # <<>>
        /\ IsStatusRetryableForMethod(call[c].method, LastTrip(c).status)
        /\ call[c].ret.res = Len(trips[c])

\* C2: when the backoff sequence signals stop and the most recent attempt
\* ended in a transport failure, RoundTrip returns a non-nil error, whether
\* or not an earlier attempt had produced a Response.
C2_StopSurfacesLastFailure ==
    \A c \in calls :
        (Exhausted(c) /\ LastTrip(c).kind = "err")
            => call[c].ret.err # NilErr

\* C3: when the request context is done during a backoff wait that follows
\* a Response of retryable status, RoundTrip returns that Response without
\* error, for an explicit cancel as for an expired deadline.
C3_CancelledWaitReturnsLastResponse ==
    \A c \in calls :
        (Done(c) /\ call[c].exit = "ctxwait" /\ LastTrip(c).kind = "resp")
            => call[c].ret = [res |-> Len(trips[c]), err |-> NilErr]

\* The number of answers at the head of the call's trips that are Responses
\* of a status retryable for the call's method.
RECURSIVE LeadingRetryable(_, _)
LeadingRetryable(c, i) ==
    IF i > Len(trips[c]) THEN 0
    ELSE IF trips[c][i].kind = "resp"
            /\ (trips[c][i].status \in {408, 429, 503}
                \/ (trips[c][i].status \in {500, 502, 504}
                    /\ call[c].method \notin {"POST", "PATCH"}))
    THEN 1 + LeadingRetryable(c, i + 1)
    ELSE 0

\* A finished call with maxRetries > 0 whose context was never done and whose
\* transport answered with Responses only.
CappedStatusRun(c) ==
    /\ Done(c)
    /\ cfg.maxRetries > 0
    /\ ctx[c] = "active"
    /\ Len(trips[c]) >= 1
    /\ \A i \in 1..Len(trips[c]) : trips[c][i].kind = "resp"

\* 1 + min(N, k), k being unbounded when every answer was retryable.
ExpectedAttempts(c) ==
    LET k == LeadingRetryable(c, 1) IN
    IF k = Len(trips[c]) THEN 1 + cfg.maxRetries ELSE 1 + Min(cfg.maxRetries, k)

\* C4 as stated: with maxRetries = N > 0, no cancellation and retryable
\* statuses until the first non-retryable one, the inner transport is
\* invoked exactly 1 + min(N, k) times.
C4_ExactAttempts ==
    \A c \in calls :
        CappedStatusRun(c) => Len(trips[c]) = ExpectedAttempts(c)

\* C4 amended: the inner transport is invoked at most 1 + min(N, k) times,
\* and exactly that many times unless the sequence's maximum elapsed time
\* stopped the retries first.
C4_AttemptsUnlessElapsed ==
    \A c \in calls :
        CappedStatusRun(c) =>
            /\ Len(trips[c]) <= ExpectedAttempts(c)
            /\ ~(call[c].exit = "stop" /\ call[c].by = "elapsed")
                    => Len(trips[c]) = ExpectedAttempts(c)

C4_Witness ==
    \E c \in calls :
        /\ CappedStatusRun(c)
        /\ call[c].exit = "stop"
        /\ call[c].by = "tries"
        /\ cfg.maxRetries = 2
        /\ Len(trips[c]) = 3

\* C5: for POST and PATCH a Response of status 500, 502 or 504 is never
\* followed by a retry: RoundTrip returns that Response without error, and
\* when it answers the first attempt there is exactly one attempt.
C5_NonIdempotentNotRetried ==
    \A c \in calls : \A i \in 1..Len(trips[c]) :
        (/\ call[c].method \in {"POST", "PATCH"}
         /\ trips[c][i].kind = "resp"
         /\ trips[c][i].status \in {500, 502, 504})
            => /\ Len(trips[c]) = i
               /\ Done(c)
               /\ call[c].ret = [res |-> i, err |-> NilErr]

C5_Witness ==
    \E c \in calls :
        /\ Done(c)
        /\ call[c].method = "PATCH"
        /\ Len(trips[c]) = 1
        /\ trips[c][1].kind = "resp"
        /\ trips[c][1].status = 502
        /\ cfg.maxRetries = 2

\* C6: when the first attempt yields a Response whose status is not
\* retryable for the method, the inner transport is invoked exactly once and
\* RoundTrip returns that Response, without error, its body unread: the
\* caller reads the bytes the transport put there.
C6_NonRetryableReturnedAsIs ==
    \A c \in calls :
        (/\ Len(trips[c]) >= 1
         /\ trips[c][1].kind = "resp"
         /\ ~IsStatusRetryableForMethod(call[c].method, trips[c][1].status))
            => /\ Len(trips[c]) = 1
               /\ Done(c)
               /\ ReturnsUntouched(c, 1)
               /\ SubSeq(trips[c][1].rbody, trips[c][1].offset + 1, Len(trips[c][1].rbody))
                      = trips[c][1].rbody

C6_Witness ==
    \E c \in calls :
        /\ Done(c)
        /\ Len(trips[c]) = 1
        /\ trips[c][1].kind = "resp"
        /\ trips[c][1].status = 200
        /\ trips[c][1].rbody = <<7, 8>>
        /\ call[c].ret.res = 1

\* C11: a transport failure that the policy classifies as non-retryable
\* ends the call: no further attempt is made and RoundTrip returns a non-nil
\* error that wraps that failure, however many attempts preceded it.
C11_FatalFailureSurfaced ==
    \A c \in calls : \A i \in 1..Len(trips[c]) :
        (trips[c][i].kind = "err" /\ ~IsErrorRetryable(trips[c][i].err))
            => /\ Len(trips[c]) = i
               /\ Done(c)
               /\ call[c].ret.res = 0
               /\ call[c].ret.err # NilErr
               /\ call[c].ret.err.inner = trips[c][i].err

\* C12: when the failure of the inner transport is the cancellation of the
\* request context (cancelled, or deadline expired during the attempt),
\* RoundTrip stops and returns that failure as a non-nil error; it never
\* returns no error without a Response.
C12_CancellationFailureSurfaced ==
    \A c \in calls : \A i \in 1..Len(trips[c]) :
        (trips[c][i].kind = "err" /\ trips[c][i].err.kind \in {"canceled", "deadline"})
            => /\ Len(trips[c]) = i
               /\ Done(c)
               /\ call[c].ret.err # NilErr
               /\ ErrorsIs(call[c].ret.err, trips[c][i].err.kind)

\* C13: once the request context is done (during a backoff wait or during
\* an attempt), the inner transport is not invoked again for that call, even
\* when the end of the wait and the cancellation coincide.
C13_NoAttemptAfterCancel ==
    [][\A c \in calls :
          (ctx[c] # "active" /\ Len(trips[c]) >= 1)
              => Len(trips'[c]) = Len(trips[c])]_vars

\* C14: a call cancelled while it waits for a backoff delay leaves the wait
\* and ends in a terminal state that is the last Response or a failure.
C14_CancelledWaitEndsInOutcome ==
    \A c \in calls :
        (Done(c) /\ call[c].exit = "ctxwait")
            => \/ call[c].ret.err # NilErr
               \/ (call[c].ret.res = Len(trips[c]) /\ LastTrip(c).kind = "resp")

\* C15: every invocation of the inner transport for a request with a
\* non-empty body finds a fresh body stream whose content is, byte for byte,
\* the original body: N retries, N + 1 identical bodies seen.
C15_BodyReplayed ==
    \A c \in calls :
        (call[c].orig.kind = "stream" /\ call[c].orig.data # <<>>)
            => \A i \in 1..Len(trips[c]) : trips[c][i].seen = call[c].orig.data

C15_Witness ==
    \E c \in calls :
        /\ call[c].orig.kind = "stream"
        /\ call[c].orig.data = <<1, 2>>
        /\ Len(trips[c]) = 3
        /\ trips[c][3].seen = <<1, 2>>
        /\ Done(c)

\* C16: if reading or closing the original request body fails, RoundTrip
\* returns a non-nil error and the inner transport is never invoked.
C16_BodyCopyFailureIsFatal ==
    \A c \in calls :
        (/\ call[c].pc # "idle"
         /\ call[c].orig.kind = "stream"
         /\ (call[c].orig.readErr \/ call[c].orig.closeErr))
            => /\ Done(c)
               /\ call[c].ret.res = 0
               /\ call[c].ret.err # NilErr
               /\ Len(trips[c]) = 0

C16_Witness ==
    \E c \in calls :
        /\ Done(c)
        /\ call[c].orig.closeErr
        /\ ~call[c].orig.readErr
        /\ call[c].exit = "copy"
        /\ call[c].ret.err # NilErr

\* C17: the error RoundTrip returns is never errTemporary nor an error that
\* wraps it, on any path.
C17_SentinelNeverReturned ==
    \A c \in calls : ~ErrorsIs(call[c].ret.err, "temporary")

C17_Witness ==
    \E c \in calls :
        /\ Exhausted(c)
        /\ call[c].by = "tries"
        /\ LastTrip(c).kind = "resp"
        /\ call[c].ret.err = NilErr
        /\ cfg.maxRetries = 1

\* The inner transport answered trip i of call c with an outcome the
\* policy classifies as retryable.
RetryableOutcome(c, i) ==
    \/ /\ trips[c][i].kind = "resp"
       /\ IsStatusRetryableForMethod(call[c].method, trips[c][i].status)
    \/ /\ trips[c][i].kind = "err"
       /\ IsErrorRetryable(trips[c][i].err)

\* Call c has been answered at least once, and so far with retryable
\* outcomes only.
OnlyRetryableOutcomes(c) ==
    /\ Len(trips[c]) >= 1
    /\ trips[c][1].kind # "pending"
    /\ \A i \in 1..Len(trips[c]) :
        trips[c][i].kind # "pending" => RetryableOutcome(c, i)

\* C21: with maxRetries = 0 the sequence of a call has no retry cap: the
\* sequence never stops the call on the retry count, and with a constant or
\* none generator, retryable outcomes only and a context that is not done
\* the call is never finished: it waits for, starts or awaits a further
\* attempt.
C21_NoCapWithoutMaxRetries ==
    \A c \in calls :
        cfg.maxRetries = 0 =>
            /\ call[c].bo # 0 => ~seqs[call[c].bo].capped
            /\ (Done(c) /\ call[c].exit = "stop") => call[c].by \in {"elapsed", "ctx"}
            /\ (/\ cfg.generator.kind \in {"constant", "none"}
                /\ ctx[c] = "active"
                /\ OnlyRetryableOutcomes(c))
                    => call[c].pc \in {"wait", "attempt", "inflight"}

\* As many attempts as the model follows were made, and a further wait has
\* begun.
C21_Witness ==
    \E c \in calls :
        /\ cfg.maxRetries = 0
        /\ cfg.generator.kind = "constant"
        /\ ctx[c] = "active"
        /\ OnlyRetryableOutcomes(c)
        /\ Len(trips[c]) = MaxAttempts
        /\ LastTrip(c).kind = "err"
        /\ call[c].pc = "wait"

\* The body of the Response of trip t has been read to its end and closed.
Drained(t) == t.offset = Len(t.rbody) /\ t.closed

\* C23: when RoundTrip has returned, every Response obtained during the
\* call other than the one returned has its body drained and closed.
C23_UnreturnedResponsesDrained ==
    \A c \in calls :
        Done(c) =>
            \A i \in 1..Len(trips[c]) :
                (trips[c][i].kind = "resp" /\ call[c].ret.res # i) => Drained(trips[c][i])

\* C24: whenever the inner transport has been invoked again after an
\* attempt that produced a Response, that Response's body is drained and
\* closed; a call holds at most one undrained Response.
C24_DrainedBeforeNextAttempt ==
    \A c \in calls :
        /\ \A i \in 1..Len(trips[c]) :
            (i < Len(trips[c]) /\ trips[c][i].kind = "resp") => Drained(trips[c][i])
        /\ Cardinality({i \in 1..Len(trips[c]) :
                trips[c][i].kind = "resp" /\ ~Drained(trips[c][i])}) <= 1

C24_Witness ==
    \E c \in calls :
        /\ Len(trips[c]) = 2
        /\ trips[c][1].kind = "resp"
        /\ trips[c][1].rbody # <<>>
        /\ Drained(trips[c][1])
        /\ trips[c][2].kind = "pending"

\* C25: the attempts of a call are sequential: only the latest invocation
\* of the inner transport can be one that has not returned, and it is so
\* exactly while the call is inside w.rt.RoundTrip.
C25_AttemptsSequential ==
    \A c \in calls :
        /\ \A i \in 1..Len(trips[c]) :
            trips[c][i].kind = "pending" => i = Len(trips[c])
        /\ (Len(trips[c]) >= 1 /\ LastTrip(c).kind = "pending") <=> call[c].pc = "inflight"

C25_Witness ==
    \E c \in calls :
        /\ Len(trips[c]) = 3
        /\ trips[c][1].kind = "err"
        /\ trips[c][2].kind = "resp"
        /\ trips[c][3].kind = "pending"
        /\ call[c].pc = "inflight"

\* C26: after a transport failure that the policy classifies as retryable,
\* with the context not done, the call waits for and makes another attempt
\* unless its backoff sequence said Stop; every retryable outcome, failure
\* or status, uses up one of the maxRetries retries.
C26_RetryableFailureRetried ==
    \A c \in calls :
        /\ (/\ Len(trips[c]) >= 1
            /\ LastTrip(c).kind = "err"
            /\ IsErrorRetryable(LastTrip(c).err)
            /\ ctx[c] = "active")
                => \/ call[c].pc \in {"wait", "attempt"}
                   \/ Exhausted(c)
        /\ (call[c].pc = "wait" /\ seqs[call[c].bo].capped)
                => seqs[call[c].bo].numTries = Len(trips[c])
        /\ (Exhausted(c) /\ call[c].by = "tries")
                => Len(trips[c]) = cfg.maxRetries + 1

\* Two retries used up by a failure and a status; the third attempt failed
\* and the sequence said Stop.
C26_Witness ==
    \E c \in calls :
        /\ cfg.maxRetries = 2
        /\ ctx[c] = "active"
        /\ Len(trips[c]) = 3
        /\ trips[c][1].kind = "err"
        /\ trips[c][2].kind = "resp"
        /\ trips[c][3].kind = "err"
        /\ OnlyRetryableOutcomes(c)
        /\ Exhausted(c)
        /\ call[c].by = "tries"

\* C27: no step of RoundTrip changes the method, the target or the header
\* of the caller's request, and the body field of a request without a body
\* (nil or NoBody) stays what the caller passed.
C27_RequestUntouched ==
    [][\A c \in calls :
        /\ call'[c].method = call[c].method
        /\ call'[c].target = call[c].target
        /\ call'[c].header = call[c].header
        /\ call'[c].orig = call[c].orig
        /\ call[c].orig.kind \in {"nil", "NoBody"} =>
                (call[c].body = call[c].orig /\ call'[c].body = call[c].orig)]_vars

C27_Witness ==
    \E c \in calls :
        /\ Done(c)
        /\ call[c].orig = NoBody
        /\ call[c].body = NoBody
        /\ call[c].method = "GET"
        /\ Len(trips[c]) = 3

\* C31: a finished RoundTrip call has returned either a Response or an
\* error: never a nil Response with a nil error, never both.
C31_ResponseOrFailure ==
    \A c \in calls :
        Done(c) =>
            /\ call[c].ret.res # 0 \/ call[c].ret.err # NilErr
            /\ ~(call[c].ret.res # 0 /\ call[c].ret.err # NilErr)
            /\ call[c].ret.res # 0 => trips[c][call[c].ret.res].kind = "resp"

\* Every call has returned.
AllDone == \A c \in calls : Done(c)

\* C32: with maxRetries = N > 0 a call never invokes the inner transport
\* more than N + 1 times, is finished once invocation N + 1 has returned,
\* and (for the N whose N + 1 attempts the model follows) does finish,
\* whatever the outcomes and the generator.
C32_TerminatesWithinCap ==
    /\ [](\A c \in calls :
            cfg.maxRetries > 0 =>
                /\ Len(trips[c]) <= cfg.maxRetries + 1
                /\ (Len(trips[c]) = cfg.maxRetries + 1 /\ LastTrip(c).kind # "pending")
                        => Done(c))
    /\ (cfg.maxRetries > 0 /\ cfg.maxRetries < MaxAttempts) ~> AllDone

\* A call finished by its invocation N + 1, after retryable failures and
\* statuses.
C32_Witness ==
    \E c \in calls :
        /\ cfg.maxRetries = 2
        /\ cfg.generator.kind = "exponential"
        /\ Done(c)
        /\ Len(trips[c]) = 3
        /\ trips[c][1].kind = "resp"
        /\ trips[c][2].kind = "err"
        /\ OnlyRetryableOutcomes(c)

\* The body of Response t has been read from or closed.
Touched(t) == t.kind = "resp" /\ (t.offset > 0 \/ t.closed)

\* C33: the Response a finished call returns has a body nobody has read or
\* closed, and the only Responses RoundTrip has drained are those after
\* which the inner transport was invoked again.
C33_ReturnedResponseIntact ==
    \A c \in calls :
        /\ (Done(c) /\ call[c].ret.res # 0) =>
                /\ trips[c][call[c].ret.res].kind = "resp"
                /\ ~Touched(trips[c][call[c].ret.res])
        /\ \A i \in 1..Len(trips[c]) :
                Touched(trips[c][i]) => i < Len(trips[c])

\* A call returning the untouched Response of its third attempt after the
\* Response of its first one was drained.
C33_Witness ==
    \E c \in calls :
        /\ Done(c)
        /\ Len(trips[c]) = 3
        /\ call[c].ret.res = 3
        /\ trips[c][3].rbody # <<>>
        /\ trips[c][3].offset = 0
        /\ ~trips[c][3].closed
        /\ trips[c][1].rbody # <<>>
        /\ Drained(trips[c][1])
        /\ trips[c][2].kind = "err"

-----------------------------------------------------------------------------
(* Properties of RoundTrip on a finished context (specification SpecCancelled) *)

\* C34: a call on a request whose context was done before the call, and
\* whose body was copied, has invoked the inner transport once and got its
\* answer before it returns; where the context ends the call, it does so
\* in the sequence asked after that answer.
C34_FirstAttemptAlwaysMade ==
    \A c \in calls :
        /\ ctx[c] # "active"
        /\ call[c].pc # "wait"
        /\ (Done(c) /\ call[c].exit # "copy") =>
                /\ Len(trips[c]) = 1
                /\ LastTrip(c).kind # "pending"
                /\ call[c].exit \in {"success", "permanent", "stop"}
                /\ call[c].exit = "stop" => call[c].by = "ctx"
        /\ (Done(c) /\ call[c].exit = "copy") => Len(trips[c]) = 0

\* A call on a cancelled context that got a retryable status from its one
\* invocation of the inner transport and was then stopped by the context.
C34_Witness ==
    \E c \in calls :
        /\ ctx[c] = "canceled"
        /\ Done(c)
        /\ Len(trips[c]) = 1
        /\ trips[c][1].kind = "resp"
        /\ trips[c][1].status = 429
        /\ call[c].exit = "stop"
        /\ call[c].by = "ctx"

-----------------------------------------------------------------------------
(* Properties of the Client (specification SpecClient) *)

\* C18: a request made with a Client built with the wrappers w1, ..., wn
\* over a base transport passes through w1 first, then w2, ..., then wn,
\* then the base transport.
C18_WrappersOutermostFirst ==
    (client.built /\ route.at = "done") =>
        /\ Len(route.path) >= Len(client.Wrappers) + 1
        /\ SubSeq(route.path, 1, Len(client.Wrappers) + 1)
                = client.Wrappers \o <<client.Transport>>

\* C22: a request made with Post, Put, Patch or Connect carries the body
\* the caller passed to the method, all the way to the transport.
C22_BodyArgumentSent ==
    (route.at # "idle" /\ route.method \in BodyMethods) => route.body = route.arg

\* The transport given to the most recent Wrap call on instance w.
LastWrapped(w) == wrappers[w].wraps[Len(wrappers[w].wraps)]

\* C35: an instance that Wrap was called on holds the transport of its most
\* recent Wrap call, and that call returned the instance itself; a request
\* that reaches the instance goes on to that transport, so after a second
\* Wrap requests go to the second transport.
C35_DelegatesToLastWrapped ==
    /\ [](\A w \in DOMAIN wrappers :
            wrappers[w].wraps # <<>> =>
                /\ wrappers[w].rt = LastWrapped(w)
                /\ wrappers[w].ret = w)
    /\ [][(/\ route.at \in DOMAIN wrappers
            /\ wrappers[route.at].wraps # <<>>
            /\ route'.at # route.at) =>
                /\ route'.path = Append(route.path, route.at)
                /\ route'.at = LastWrapped(route.at)]_vars

\* The Client's transport is an instance wrapped around t1 and then around
\* http.DefaultTransport, and a request through it left by the latter.
C35_Witness ==
    /\ client.built
    /\ client.transport = "w3"
    /\ wrappers["w3"].wraps = <<"t1", DefaultTransport>>
    /\ route.at = "done"
    /\ route.path = <<"w3", DefaultTransport>>

-----------------------------------------------------------------------------
(* Properties of concurrent calls (specification SpecConc) *)

\* A finished call with maxRetries > 0 whose context was never done and whose
\* transport answered every attempt with a retryable status.
RetryableStatusRun(c) ==
    /\ CappedStatusRun(c)
    /\ LeadingRetryable(c, 1) = Len(trips[c])

\* C19 as stated: with maxRetries = N and a transport that always answers
\* with a retryable status, each of the concurrent calls makes exactly N + 1
\* attempts.
C19_ExactAttemptsEach ==
    \A c \in calls :
        RetryableStatusRun(c) => Len(trips[c]) = cfg.maxRetries + 1

\* C19 amended: concurrent calls on one RetryWrapper never use the same
\* backoff sequence; a call stopped by the retry count has made N + 1
\* attempts of its own, and a call answered only with retryable statuses
\* makes exactly N + 1 attempts unless the maximum elapsed time of its own
\* sequence stopped it first.
C19_NoSharedRetryState ==
    /\ \A c \in calls :
        RetryableStatusRun(c) =>
            /\ Len(trips[c]) <= cfg.maxRetries + 1
            /\ ~(call[c].exit = "stop" /\ call[c].by = "elapsed")
                    => Len(trips[c]) = cfg.maxRetries + 1
    /\ \A c \in calls : \A d \in calls \ {c} :
        (call[c].bo # 0 /\ call[d].bo # 0) => call[c].bo # call[d].bo
    /\ \A c \in calls :
        (Done(c) /\ call[c].exit = "stop" /\ call[c].by = "tries")
            => Len(trips[c]) = cfg.maxRetries + 1

\* One call stopped after its first attempt by the elapsed time of its
\* sequence, the other went on to its third attempt.
C19_Witness ==
    \E c \in calls : \E d \in calls \ {c} :
        /\ cfg.maxRetries = 2
        /\ RetryableStatusRun(c)
        /\ call[c].exit = "stop" /\ call[c].by = "elapsed"
        /\ Len(trips[c]) = 1
        /\ RetryableStatusRun(d)
        /\ call[d].exit = "stop" /\ call[d].by = "tries"
        /\ Len(trips[d]) = 3

-----------------------------------------------------------------------------
(* Properties of the generators (specification SpecGen) *)

\* What sequence bo answers when asked for its next delay.
Produces(bo, over) ==
    [next |-> DelegateNextBackOff(bo, over).next, stop |-> DelegateNextBackOff(bo, over).stop]

SameAnswers(a, b) == \A over \in BOOLEAN : Produces(a, over) = Produces(b, over)

\* C20: every invocation of a generator returns a new sequence at its start
\* and leaves the sequences returned before as they were; advancing or
\* exhausting one sequence does not change what any other one produces.
C20_SequencesIndependent ==
    [][/\ Len(seqs') >= Len(seqs)
       /\ Len(seqs') > Len(seqs) =>
            /\ Len(seqs') = Len(seqs) + 1
            /\ \E g \in DirectGenerators : seqs'[Len(seqs')] = NewSequence(g)
            /\ \A j \in 1..Len(seqs) : SameAnswers(seqs'[j], seqs[j])
       /\ Len(seqs') = Len(seqs) =>
            \E i \in 1..Len(seqs) : \E over \in BOOLEAN :
                /\ seqs'[i] = DelegateNextBackOff(seqs[i], over).bo
                /\ \A j \in 1..Len(seqs) \ {i} : SameAnswers(seqs'[j], seqs[j])]_vars

\* Two sequences of the same exponential generator: the first advanced and
\* past its maximum elapsed time, the second still at its start.
C20_Witness ==
    /\ Len(seqs) = 2
    /\ seqs[1].gen = seqs[2].gen
    /\ seqs[1].gen.kind = "exponential"
    /\ seqs[1].expired
    /\ seqs[1].interval > DefaultInitialInterval
    /\ seqs[2] = NewSequence(seqs[2].gen)
    /\ ~Produces(seqs[2], FALSE).stop

\* The argument of the last option named name in opts, default without one.
Configured(opts, name, default) ==
    IF \E i \in 1..Len(opts) : opts[i].option = name
    THEN LET last == CHOOSE i \in 1..Len(opts) :
                        /\ opts[i].option = name
                        /\ \A j \in (i + 1)..Len(opts) : opts[j].option # name
         IN opts[last].arg
    ELSE default

\* C29: every sequence the exponential generator produces starts from the
\* configured initial interval: that is its current interval, its first
\* delay lies around it by the configured randomization factor, and no
\* elapsed time has yet run against its configured maximum.
C29_SequenceStartsFromConfiguration ==
    [][Len(seqs') > Len(seqs) =>
        LET bo == seqs'[Len(seqs')]
            initial == Configured(bo.gen.opts, "WithInitialInterval", 500)
            factor == Configured(bo.gen.opts, "WithRandomizationFactor", 5)
            first == DelegateNextBackOff(bo, FALSE)
        IN
        bo.gen.kind = "exponential" =>
            /\ bo.interval = initial
            /\ bo.MaxElapsedTime = Configured(bo.gen.opts, "WithMaxElapsedTime", 900000)
            /\ ~bo.expired
            /\ ~first.stop
            /\ first.next = initial
            /\ first.lo = initial - (factor * initial) \div 10
            /\ first.hi = initial + (factor * initial) \div 10]_vars

\* Two sequences of the generator built with WithInitialInterval(100): the
\* first has been advanced, the second starts from 100 ms again.
C29_Witness ==
    /\ Len(seqs) = 2
    /\ seqs[1].gen = ExponentialBackoffGenerator(<<WithInitialInterval(100)>>)
    /\ seqs[2].gen = seqs[1].gen
    /\ seqs[1].interval > 100
    /\ seqs[1].expired
    /\ seqs[2].interval = 100
    /\ ~seqs[2].expired

\* C30: a sequence of the constant generator answers every request for a
\* delay with the configured delay and never with Stop; a sequence of the
\* none generator answers every one with a zero delay and never with Stop.
C30_ConstantAndNoneNeverStop ==
    /\ \A i \in 1..Len(seqs) : \A over \in BOOLEAN :
        LET r == DelegateNextBackOff(seqs[i], over) IN
        /\ seqs[i].gen.kind = "constant" =>
                (~r.stop /\ r.next = seqs[i].gen.d /\ r.lo = r.next /\ r.hi = r.next)
        /\ seqs[i].gen.kind = "none" =>
                (~r.stop /\ r.next = 0 /\ r.lo = 0 /\ r.hi = 0)
    /\ (query.kind = "NextBackOff" /\ answer.given) =>
        /\ seqs[query.seq].gen.kind = "constant" =>
                answer.value = [stop |-> FALSE, next |-> seqs[query.seq].gen.d,
                                lo |-> seqs[query.seq].gen.d, hi |-> seqs[query.seq].gen.d]
        /\ seqs[query.seq].gen.kind = "none" =>
                answer.value = [stop |-> FALSE, next |-> 0, lo |-> 0, hi |-> 0]

\* Four delays asked of a constant and a zero sequence, the last of them
\* of the zero sequence.
C30_Witness ==
    /\ Len(seqs) = 2
    /\ seqs[1].gen = ConstantBackoffGenerator(1)
    /\ seqs[2].gen = NoBackoffGenerator
    /\ query.kind = "NextBackOff"
    /\ query.n = 4
    /\ query.seq = 2
    /\ answer.value.next = 0
    /\ ~answer.value.stop

-----------------------------------------------------------------------------
(* Properties of the options (specification SpecOptions) *)

\* The configuration field an option assigns; WithWrapper assigns none, it
\* appends to Wrappers.
FieldOf(opt) ==
    CASE opt.option = "WithLogger" -> "Logger"
      [] opt.option = "WithBackoffGenerator" -> "GenerateBackoff"
      [] opt.option = "WithMaxRetries" -> "maxRetries"
      [] opt.option = "WithTransport" -> "Transport"
      [] opt.option = "WithInitialInterval" -> "InitialInterval"
      [] opt.option = "WithMaxElapsedTime" -> "MaxElapsedTime"
      [] opt.option = "WithRandomizationFactor" -> "RandomizationFactor"
      [] opt.option = "WithMultiplier" -> "Multiplier"
      [] OTHER -> "Wrappers"

\* No option after number i in opts assigns the field that option i does.
LastForItsField(opts, i) ==
    \A j \in (i + 1)..Len(opts) : FieldOf(opts[j]) # FieldOf(opts[i])

\* The arguments of the WithWrapper options in opts, in their order.
WrapperArgs(opts) ==
    LET ws == SelectSeq(opts, LAMBDA o : o.option = "WithWrapper")
    IN [i \in 1..Len(ws) |-> ws[i].arg]

OptionsApplied ==
    /\ query.kind \in {"RetryWrapperOption", "ClientOption", "ExponentialBackoffOption"}
    /\ answer.given

\* C28: the options are applied in the order given: every field has the
\* value of the last option in the list that assigns it, for the options
\* of RetryWrapper, of Client and of the exponential generator; the
\* wrappers of a Client are those of the WithWrapper options in order.
C28_LaterOptionWins ==
    OptionsApplied =>
        /\ \A i \in 1..Len(query.opts) :
            (query.opts[i].option # "WithWrapper" /\ LastForItsField(query.opts, i))
                => answer.value[FieldOf(query.opts[i])] = query.opts[i].arg
        /\ query.kind = "ClientOption" => answer.value.Wrappers = WrapperArgs(query.opts)

C28_Witness ==
    /\ OptionsApplied
    /\ query.opts = <<WithInitialInterval(100), WithInitialInterval(200)>>
    /\ answer.value.InitialInterval = 200

-----------------------------------------------------------------------------
(* Properties of DefaultRetryPolicy (specification SpecPolicy) *)

StatusAnswered == query.kind = "status" /\ answer.given

ErrorAnswered == query.kind = "error" /\ answer.given

\* C7: IsStatusRetryableForMethod is true for 408, 429 and 503 for every
\* method, POST and PATCH included.
C7_AlwaysRetryableCodes ==
    (StatusAnswered /\ query.code \in {408, 429, 503}) => answer.value

C7_Witness ==
    /\ StatusAnswered
    /\ query.code = 503
    /\ query.method = "PATCH"
    /\ answer.value

\* C8: for 500, 502 and 504 IsStatusRetryableForMethod is true only for
\* GET, HEAD, PUT, DELETE, OPTIONS, TRACE and CONNECT, and false for every
\* other method string.
C8_OnlyListedMethodsRetry5xx ==
    (StatusAnswered /\ query.code \in {500, 502, 504})
        => (answer.value
               <=> query.method \in {"GET", "HEAD", "PUT", "DELETE", "OPTIONS", "TRACE", "CONNECT"})

\* C9: for every status code outside {408, 429, 500, 502, 503, 504} and
\* every method IsStatusRetryableForMethod is false.
C9_OtherCodesNotRetryable ==
    (StatusAnswered /\ query.code \notin {408, 429, 500, 502, 503, 504})
        => ~answer.value

C9_Witness ==
    /\ StatusAnswered
    /\ query.code = 404
    /\ query.method = "GET"
    /\ ~answer.value

\* The text pat occurs in msg: msg is some prefix of itself, then pat, then
\* some suffix of itself.
OccursIn(pat, msg) ==
    \E i \in 0..Len(msg) : \E j \in i..Len(msg) :
        msg = SubSeq(msg, 1, i) \o pat \o SubSeq(msg, j + 1, Len(msg))

TransientPatterns ==
    {PatConnectionRefused, PatConnectionReset, PatEOF, PatProtocolError, PatRefusedStream}

\* C10: IsErrorRetryable is true for a nil failure, true for a failure whose
\* message contains one of the transient-fault patterns, false otherwise.
C10_ErrorRetryable ==
    ErrorAnswered =>
        (answer.value <=>
            (query.err = NilErr
             \/ \E pat \in TransientPatterns : OccursIn(pat, query.err.msg)))

C10_Witness ==
    /\ ErrorAnswered
    /\ query.err # NilErr
    /\ query.err.msg = FragUnknown \o FragConnection \o FragReset
    /\ answer.value

=============================================================================
